---- MODULE Spec2Model ----
\* A model of the download orchestration of the yt-dlp manager:
\*   - the batch run of main() (Yt_downloader.py, lines 403-425): the thread
\*     pool, the dispatch loop, download_worker's retry loop and the collection
\*     of the futures;
\*   - handle_playlist (Yt_downloader.py, lines 187-220): extraction, the
\*     cookies retry and the expansion of a collection.
\* The extraction/download engine (yt_dlp) is an external collaborator: each of
\* its calls is a nondeterministic choice between returning and raising.
EXTENDS Integers, Sequences, FiniteSets, TLC

\* ------------------------------------------------------------------ bounds
MaxItems == 2        \* longest list of links of a batch
MaxRetries == 2      \* largest retries number written in config.yml
MaxParallel == 2     \* largest max_parallel_downloads written in config.yml
MaxEntries == 2      \* most child entries of an extracted collection
MaxEvents == 1       \* most progress events the engine sends for one item
MaxLines == 2        \* most non-empty input lines of one link input

\* --------------------------------------------------------- program constants
\* DEFAULT_CONFIG["retries"] and DEFAULT_CONFIG["max_parallel_downloads"]
DefaultRetries == 3
DefaultMaxParallel == 2
\* the fallback of download_worker when int(retries) raises
WorkerFallbackRetries == 3

\* ------------------------------------------------------------------ values
\* A value of config.yml as Python sees it after yaml.safe_load.
\*   "int"    an integer                     retries: 2
\*   "numstr" a string of digits             retries: "2"
\*   "text"   a string that is no number     retries: many
\*   "absent" the key is not in the file
IntV(n) == [kind |-> "int", val |-> n]
NumStr(n) == [kind |-> "numstr", val |-> n]
Text == [kind |-> "text", val |-> 0]
Absent == [kind |-> "absent", val |-> 0]

RetriesFileValues ==
    {Absent, Text, NumStr(1)} \cup {IntV(n) : n \in -1..MaxRetries}

ParallelFileValues ==
    {Absent, Text, NumStr(1)} \cup {IntV(n) : n \in -1..MaxParallel}

Urls == {"http://a", "http://b"}

\* The link lists main() can hold at line 403: not empty (line 380).
LinkLists == UNION {[1..n -> Urls] : n \in 1..MaxItems}

VARIABLES
    \* ---- configuration
    fileCfg,       \* config.yml: [readable, retries, max_parallel_downloads]
    config,        \* the dict load_config returned
    \* ---- main(), lines 403-425
    pc,            \* position of the main thread
    links,         \* the resolved item urls
    retries,       \* local of main, line 403
    max_parallel,  \* local of main, line 404
    poolSize,      \* max_workers of the executor, 0 before it exists
    idx,           \* index in links of the url the dispatch loop is at
    title,         \* local of main, lines 416/418
    labels,        \* descriptions of the progress tasks, task id i-1 at i
    queue,         \* work queue of the executor (item indexes, FIFO)
    collected,     \* futures whose result() main has taken
    \* ---- download_worker, one invocation per item
    wpc,           \* position of each invocation
    wRetries,      \* its local retries after int()
    attempt,       \* its loop variable
    calls,         \* times ydl.download was invoked for the item
    okAt,          \* the call at which ydl.download returned, 0 if none
    result,        \* value returned: "none" before, "True", "False"
    outcomes,      \* number of times the invocation returned
    backoffs,      \* number of time.sleep(1) of the invocation
    \* ---- handle_playlist
    hpc,           \* position in handle_playlist
    hUrl,          \* its argument
    hCalls,        \* the try_extract calls made: [url, cookiefile]
    hPrompts,      \* number of console.input prompts
    hFirst,        \* outcome of the first try_extract
    hCookies,      \* the stripped answer to the prompt
    hRetry,        \* outcome of the retried try_extract
    hResult,       \* what handle_playlist returned
    \* ---- run options and progress reporting
    choices,       \* the user's format and thumbnail choices, lines 386-399
    ydl_opts_base, \* the options dict of line 401, shared by the workers
    wOpts,         \* the ydl_opts each invocation built last, lines 247-253
    taskIds,       \* the task id add_task returned for each item
    emitted,       \* progress events the engine sent to each item's hook
    sinkUpdates,   \* progress.update calls received, per task id (id t at t+1)
    \* ---- link input, lines 325-378
    linesRead,     \* number of input lines taken so far
    \* ---- configuration store, menu and target chooser
    disk,          \* config.yml: absent, corrupt or the dict it holds
    defaultCats,   \* the dict DEFAULT_CONFIG["categories"] (name -> path)
    catsAliased,   \* config["categories"] is that very dict object
    current_path,  \* local of choose_download_target, lines 272-277
    out_path,      \* what choose_download_target returned
    saveLog,       \* the last save_config call: its argument and outcome
    mgrFrom,       \* who called manage_categories / pick_category_for_run
    lastError,     \* the error the top-level loop caught last
    touched        \* choose_download_target took an option other than Enter

cfgVars == <<fileCfg, config>>
mainVars == <<pc, links, retries, max_parallel, poolSize, idx, title, labels,
              queue, collected>>
workerVars == <<wpc, wRetries, attempt, calls, okAt, result, outcomes, backoffs>>
resolveVars == <<hpc, hUrl, hCalls, hPrompts, hFirst, hCookies, hRetry, hResult>>
progressVars == <<choices, ydl_opts_base, wOpts, taskIds, emitted, sinkUpdates>>
inputVars == <<linesRead>>
appVars == <<disk, defaultCats, catsAliased, current_path, out_path, saveLog,
             mgrFrom, lastError, touched>>
vars == <<cfgVars, mainVars, workerVars, resolveVars, progressVars, inputVars,
          appVars>>

Items == DOMAIN links

\* ------------------------------------------------------------ configuration
DEFAULT_CONFIG ==
    [retries |-> IntV(DefaultRetries),
     max_parallel_downloads |-> IntV(DefaultMaxParallel)]

\* load_config, lines 42-44: "fill missing keys with defaults".
FillMissing(v, default) == IF v.kind = "absent" THEN default ELSE v

\* load_config: the parsed file with the missing keys filled in, or the
\* defaults when the file cannot be read or parsed.
load_config(f) ==
    IF f.readable
    THEN [retries |-> FillMissing(f.retries, DEFAULT_CONFIG.retries),
          max_parallel_downloads |->
              FillMissing(f.max_parallel_downloads,
                          DEFAULT_CONFIG.max_parallel_downloads)]
    ELSE DEFAULT_CONFIG

\* dict.get(key, default) on the loaded config.
ConfigGet(cfg, key, default) ==
    IF key \in DOMAIN cfg THEN cfg[key] ELSE default

\* The configuration files of the model.
ConfigFiles ==
    {[readable |-> FALSE, retries |-> Absent, max_parallel_downloads |-> Absent]}
    \cup [readable : {TRUE}, retries : RetriesFileValues,
          max_parallel_downloads : ParallelFileValues]

\* ----------------------------------------------------------------- the pool
\* ThreadPoolExecutor(max_workers=v): ValueError when v <= 0, TypeError when v
\* is a string (v <= 0 cannot be evaluated).
PoolCtorOk(v) == v.kind = "int" /\ v.val >= 1

\* The invocations of download_worker that have started and not returned.
Active == {i \in Items : wpc[i] \in {"loop", "call", "sleep"}}

\* A pool thread takes the next work item only when fewer than max_workers
\* threads are busy.
PoolHasFreeSlotNoLimit == TRUE
PoolHasFreeSlot == Cardinality(Active) < poolSize

\* Future.done(): as_completed yields a future only once its call returned.
FutureDoneAlways(i) == TRUE
FutureDoneOnSuccess(i) == wpc[i] = "done" /\ result[i] = "True"
FutureDone(i) == wpc[i] = "done"

\* The work queue after an invocation returned with result res: the pool
\* leaves the pending work items alone whatever the result.
QueueAfterReturnCancelling(q, res) == IF res = "False" THEN << >> ELSE q
QueueAfterReturn(q, res) == q

\* ---------------------------------------------------------- download_worker
\* lines 224-227: retries = int(retries), 3 when int() raises.
IntOrFallback(v) ==
    IF v.kind \in {"int", "numstr"} THEN v.val ELSE WorkerFallbackRetries

\* line 229: for attempt in range(retries) has a next value.
RangeHasNextInclusive(a, r) == a <= r
RangeHasNext(a, r) == a < r

\* line 259: "except Exception" catches every error ydl.download raises.
WorkerCatchesNothing == FALSE
WorkerCatches == TRUE

\* lines 249 and 255-256: the file ydl.download writes for a url: the target
\* directory, which all invocations share, and the title of the url.
TitleOf(u) == IF u = "http://a" THEN "A" ELSE "B"
OutputPath(u) == [dir |-> "out_path", name |-> TitleOf(u)]

\* lines 256-257: where the invocation is after ydl.download returned.
AfterDownloadKeepsLooping == "sleep"
AfterDownloadReturned == "done"

\* The label of a progress task: the title the engine found for the url, or
\* the raw url (info.get("title", url), and title = url when the lookup raises).
TitleLabel(u) == [kind |-> "title", of |-> u]
UrlLabelMissing(u) == [kind |-> "none", of |-> u]
UrlLabel(u) == [kind |-> "url", of |-> u]

\* ------------------------------------------------------------- run options
\* What the user chose at the format prompt (choose_format_and_postprocessors:
\* "b" for best, or the mp3 conversion entry) and at the thumbnail prompt.
Choices == [format : {"best", "conv-mp3"}, thumb : {"y", "n"}]
DefaultChoice == [format |-> "best", thumb |-> "n"]
NoOpts == [format |-> "none", postprocessors |-> << >>, continuedl |-> FALSE,
           writethumbnail |-> FALSE, outtmpl |-> "unset", quiet |-> "unset"]

\* lines 386-401: ydl_opts_base from the choices; it has no outtmpl.
BuildOpts(ch) ==
    [format |-> IF ch.format = "best" THEN "bestvideo+bestaudio/best"
                ELSE "bestaudio/best",
     postprocessors |-> IF ch.format = "best" THEN << >>
                        ELSE <<"FFmpegExtractAudio:mp3">>,
     continuedl |-> TRUE,
     writethumbnail |-> (ch.thumb = "y"),
     outtmpl |-> "unset",
     quiet |-> "unset"]

\* lines 247-253: ydl_opts = {**opts, "outtmpl": ..., "quiet": True, ...}
WorkerOpts(opts) ==
    [opts EXCEPT !.outtmpl = "out_path/%(title)s.%(ext)s", !.quiet = "True"]

\* lines 247-253: the dict literal is a new dict, opts itself is not written.
SharedAfterAttemptInPlace(opts) == WorkerOpts(opts)
SharedAfterAttempt(opts) == opts

\* ------------------------------------------------------------- progress sink
\* progress.add_task numbers the tasks from 0: the id is the number of tasks
\* the sink already holds.
NewTaskId(ls) == Len(ls)

\* lines 232 and 243: "... and progress and task_id": the hook calls
\* progress.update only when task_id is truthy, and the integer 0 is not.
HookDelivers(t) == t # 0

\* ------------------------------------------------------------- batch: Init
\* config.yml when there is no file, or one that cannot be read or parsed
NoFile(k) ==
    [kind |-> k, hasCats |-> FALSE, categories |-> << >>,
     default_category |-> "None", last_used_path |-> "None",
     download_path |-> "None"]
AbsentFile == NoFile("absent")
CorruptFile == NoFile("corrupt")

AppIdle ==
    /\ linesRead = 0
    /\ disk = AbsentFile
    /\ defaultCats = << >>
    /\ catsAliased = FALSE
    /\ current_path = "None"
    /\ out_path = "None"
    /\ saveLog = [called |-> FALSE]
    /\ mgrFrom = "none"
    /\ lastError = "none"
    /\ touched = FALSE

ProgressIdle ==
    /\ choices = DefaultChoice
    /\ ydl_opts_base = NoOpts
    /\ wOpts = << >>
    /\ taskIds = << >>
    /\ emitted = << >>
    /\ sinkUpdates = << >>

ResolveIdle ==
    /\ hpc = "idle"
    /\ hUrl = "none"
    /\ hCalls = << >>
    /\ hPrompts = 0
    /\ hFirst = [kind |-> "none"]
    /\ hCookies = "none"
    /\ hRetry = [kind |-> "none"]
    /\ hResult = [kind |-> "none"]

BatchRestIdle ==
    /\ fileCfg = [readable |-> FALSE, retries |-> Absent,
                  max_parallel_downloads |-> Absent]
    /\ config = [none |-> TRUE]
    /\ retries = Absent
    /\ max_parallel = Absent
    /\ poolSize = 0
    /\ idx = 0
    /\ title = [kind |-> "none"]
    /\ labels = << >>
    /\ queue = << >>
    /\ collected = {}
    /\ wpc = << >>
    /\ wRetries = << >>
    /\ attempt = << >>
    /\ calls = << >>
    /\ okAt = << >>
    /\ result = << >>
    /\ outcomes = << >>
    /\ backoffs = << >>
    /\ ProgressIdle

BatchIdle ==
    /\ pc = "idle"
    /\ links = << >>
    /\ BatchRestIdle


\* main() before load_config (line 306), with the links the link input of
\* lines 325-378 will have gathered.
BatchStart ==
    /\ config = [none |-> TRUE]
    /\ pc = "load"
    /\ retries = Absent
    /\ max_parallel = Absent
    /\ poolSize = 0
    /\ idx = 0
    /\ title = [kind |-> "none"]
    /\ labels = << >>
    /\ queue = << >>
    /\ collected = {}
    /\ wpc = [i \in DOMAIN links |-> "none"]
    /\ wRetries = [i \in DOMAIN links |-> 0]
    /\ attempt = [i \in DOMAIN links |-> 0]
    /\ calls = [i \in DOMAIN links |-> 0]
    /\ okAt = [i \in DOMAIN links |-> 0]
    /\ result = [i \in DOMAIN links |-> "none"]
    /\ outcomes = [i \in DOMAIN links |-> 0]
    /\ backoffs = [i \in DOMAIN links |-> 0]
    /\ ydl_opts_base = NoOpts
    /\ wOpts = [i \in DOMAIN links |-> NoOpts]
    /\ taskIds = [i \in DOMAIN links |-> -1]
    /\ emitted = [i \in DOMAIN links |-> 0]
    /\ sinkUpdates = [i \in DOMAIN links |-> 0]
    /\ ResolveIdle
    /\ AppIdle

InitBatch ==
    /\ fileCfg \in ConfigFiles
    /\ links \in LinkLists
    /\ choices = DefaultChoice
    /\ BatchStart

\* ------------------------------------------------------ batch: main thread
\* line 306: config = load_config()
LoadConfig ==
    /\ pc = "load"
    /\ config' = load_config(fileCfg)
    /\ pc' = "params"
    /\ UNCHANGED <<fileCfg, links, retries, max_parallel, poolSize, idx, title,
                   labels, queue, collected, workerVars, resolveVars, progressVars,
                   inputVars, appVars>>

\* lines 401-404: the options dict is built, retries and max_parallel are read
ReadRunParams ==
    /\ pc = "params"
    /\ ydl_opts_base' = BuildOpts(choices)
    /\ retries' = ConfigGet(config, "retries", IntV(3))
    /\ max_parallel' = ConfigGet(config, "max_parallel_downloads", IntV(2))
    /\ pc' = "pool"
    /\ UNCHANGED <<cfgVars, links, poolSize, idx, title, labels, queue,
                   collected, workerVars, resolveVars, choices, wOpts, taskIds,
                   emitted, sinkUpdates,
                   inputVars, appVars>>

\* line 410: the executor is created, or its constructor raises and the error
\* leaves main().
CreatePool ==
    /\ pc = "pool"
    /\ IF PoolCtorOk(max_parallel)
       THEN /\ poolSize' = max_parallel.val
            /\ idx' = 1
            /\ pc' = "title"
       ELSE /\ pc' = "crashed"
            /\ UNCHANGED <<poolSize, idx>>
    /\ UNCHANGED <<cfgVars, links, retries, max_parallel, title, labels, queue,
                   collected, workerVars, resolveVars, progressVars,
                   inputVars, appVars>>

\* lines 413-416: the lookup returns an info with a title
TitleFound ==
    /\ pc = "title"
    /\ title' = TitleLabel(links[idx])
    /\ pc' = "add_task"
    /\ UNCHANGED <<cfgVars, links, retries, max_parallel, poolSize, idx, labels,
                   queue, collected, workerVars, resolveVars, progressVars,
                   inputVars, appVars>>

\* lines 416-418: the info has no title, or the lookup raises
TitleFallback ==
    /\ pc = "title"
    /\ title' = UrlLabel(links[idx])
    /\ pc' = "add_task"
    /\ UNCHANGED <<cfgVars, links, retries, max_parallel, poolSize, idx, labels,
                   queue, collected, workerVars, resolveVars, progressVars,
                   inputVars, appVars>>

\* line 420: task_id = progress.add_task(title, total=None)
AddTask ==
    /\ pc = "add_task"
    /\ labels' = Append(labels, title)
    /\ taskIds' = [taskIds EXCEPT ![idx] = NewTaskId(labels)]
    /\ pc' = "submit"
    /\ UNCHANGED <<cfgVars, links, retries, max_parallel, poolSize, idx, title,
                   queue, collected, workerVars, resolveVars, choices,
                   ydl_opts_base, wOpts, emitted, sinkUpdates,
                   inputVars, appVars>>

\* line 421: executor.submit(download_worker, url, ...), then the next url
Submit ==
    /\ pc = "submit"
    /\ queue' = Append(queue, idx)
    /\ wpc' = [wpc EXCEPT ![idx] = "queued"]
    /\ idx' = idx + 1
    /\ pc' = IF idx = Len(links) THEN "collect" ELSE "title"
    /\ UNCHANGED <<cfgVars, links, retries, max_parallel, poolSize, title,
                   labels, collected, wRetries, attempt, calls, okAt, result,
                   outcomes, backoffs, resolveVars, progressVars,
                   inputVars, appVars>>

\* lines 422-423: as_completed yields a finished future, f.result() returns
Collect(i) ==
    /\ pc = "collect"
    /\ i \notin collected
    /\ FutureDone(i)
    /\ collected' = collected \cup {i}
    /\ pc' = IF result[i] = "raised" THEN "crashed" ELSE pc
    /\ UNCHANGED <<cfgVars, links, retries, max_parallel, poolSize, idx,
                   title, labels, queue, workerVars, resolveVars, progressVars,
                   inputVars, appVars>>

\* lines 423-425: every future was taken, the with blocks exit and
\* "All downloads finished!" is printed
Finish ==
    /\ pc = "collect"
    /\ collected = Items
    /\ pc' = "finished"
    /\ UNCHANGED <<cfgVars, links, retries, max_parallel, poolSize, idx, title,
                   labels, queue, collected, workerVars, resolveVars, progressVars,
                   inputVars, appVars>>

\* -------------------------------------------------- batch: download_worker
\* A pool thread takes the head of the work queue and enters download_worker,
\* lines 223-227.
WorkerStart(i) ==
    /\ queue # << >>
    /\ i = Head(queue)
    /\ PoolHasFreeSlot
    /\ queue' = Tail(queue)
    /\ wpc' = [wpc EXCEPT ![i] = "loop"]
    /\ wRetries' = [wRetries EXCEPT ![i] = IntOrFallback(retries)]
    /\ attempt' = [attempt EXCEPT ![i] = 0]
    /\ UNCHANGED <<cfgVars, pc, links, retries, max_parallel, poolSize, idx,
                   title, labels, collected, calls, okAt, result, outcomes,
                   backoffs, resolveVars, progressVars,
                   inputVars, appVars>>

\* line 229 and lines 247-256: the loop has a next attempt and the engine's
\* download is invoked
WorkerAttempt(i) ==
    /\ wpc[i] = "loop"
    /\ RangeHasNext(attempt[i], wRetries[i])
    /\ wOpts' = [wOpts EXCEPT ![i] = WorkerOpts(ydl_opts_base)]
    /\ ydl_opts_base' = SharedAfterAttempt(ydl_opts_base)
    /\ calls' = [calls EXCEPT ![i] = @ + 1]
    /\ wpc' = [wpc EXCEPT ![i] = "call"]
    /\ UNCHANGED <<cfgVars, mainVars, wRetries, attempt, okAt, result, outcomes,
                   backoffs, resolveVars, choices, taskIds, emitted, sinkUpdates,
                   inputVars, appVars>>

\* lines 263-264: the loop is exhausted, return False
WorkerGiveUp(i) ==
    /\ wpc[i] = "loop"
    /\ ~RangeHasNext(attempt[i], wRetries[i])
    /\ wpc' = [wpc EXCEPT ![i] = "done"]
    /\ result' = [result EXCEPT ![i] = "False"]
    /\ outcomes' = [outcomes EXCEPT ![i] = @ + 1]
    /\ queue' = QueueAfterReturn(queue, "False")
    /\ UNCHANGED <<cfgVars, pc, links, retries, max_parallel, poolSize, idx,
                   title, labels, collected, wRetries, attempt, calls, okAt,
                   backoffs, resolveVars, progressVars,
                   inputVars, appVars>>

\* lines 256-257: ydl.download returns, return True
DownloadReturns(i) ==
    /\ wpc[i] = "call"
    /\ okAt' = [okAt EXCEPT ![i] = calls[i]]
    /\ IF AfterDownloadReturned = "done"
       THEN /\ wpc' = [wpc EXCEPT ![i] = "done"]
            /\ result' = [result EXCEPT ![i] = "True"]
            /\ outcomes' = [outcomes EXCEPT ![i] = @ + 1]
            /\ queue' = QueueAfterReturn(queue, "True")
       ELSE /\ wpc' = [wpc EXCEPT ![i] = AfterDownloadReturned]
            /\ UNCHANGED <<result, outcomes, queue>>
    /\ UNCHANGED <<cfgVars, pc, links, retries, max_parallel, poolSize, idx,
                   title, labels, collected, wRetries, attempt, calls, backoffs,
                   resolveVars, progressVars,
                   inputVars, appVars>>

\* lines 259-261: ydl.download raises, the failure is printed and the
\* invocation sleeps one second. An error the except clause did not catch
\* would leave download_worker and be stored in the future.
DownloadRaises(i) ==
    /\ wpc[i] = "call"
    /\ IF WorkerCatches
       THEN /\ wpc' = [wpc EXCEPT ![i] = "sleep"]
            /\ backoffs' = [backoffs EXCEPT ![i] = @ + 1]
            /\ UNCHANGED result
       ELSE /\ wpc' = [wpc EXCEPT ![i] = "done"]
            /\ result' = [result EXCEPT ![i] = "raised"]
            /\ UNCHANGED backoffs
    /\ UNCHANGED <<cfgVars, mainVars, wRetries, attempt, calls, okAt,
                   outcomes, resolveVars, progressVars,
                   inputVars, appVars>>

\* line 261 to line 229: the sleep ends, the loop takes its next value
BackoffDone(i) ==
    /\ wpc[i] = "sleep"
    /\ attempt' = [attempt EXCEPT ![i] = @ + 1]
    /\ wpc' = [wpc EXCEPT ![i] = "loop"]
    /\ UNCHANGED <<cfgVars, mainVars, wRetries, calls, okAt, result, outcomes,
                   backoffs, resolveVars, progressVars,
                   inputVars, appVars>>

NextBatch ==
    \/ LoadConfig
    \/ ReadRunParams
    \/ CreatePool
    \/ TitleFound
    \/ TitleFallback
    \/ AddTask
    \/ Submit
    \/ Finish
    \/ \E i \in Items : Collect(i)
    \/ \E i \in Items : WorkerStart(i)
    \/ \E i \in Items : WorkerAttempt(i)
    \/ \E i \in Items : WorkerGiveUp(i)
    \/ \E i \in Items : DownloadReturns(i)
    \/ \E i \in Items : DownloadRaises(i)
    \/ \E i \in Items : BackoffDone(i)

SpecBatch == InitBatch /\ [][NextBatch]_vars

\* ------------------------------------------------- configuration store (app)
\* A categories dict is a sequence of [name, path] entries with distinct
\* names, in insertion order (list(cats.items()) is that sequence).
CatNames == {"Music", "Video"}
Folders == {"/m"}          \* what the folder popup of the manager can give
PickedFolders == {"/p"}    \* what the folder popup of the chooser can give
BasePath == "/base"
Cat(n, p) == [name |-> n, path |-> p]

HasKey(cats, n) == \E k \in DOMAIN cats : cats[k].name = n
Lookup(cats, n) == cats[CHOOSE k \in DOMAIN cats : cats[k].name = n].path

\* cats.pop(n)
DictPop(cats, n) == SelectSeq(cats, LAMBDA e : e.name # n)

\* cats[n] = p: the value of an existing key is replaced in place, a new key
\* is appended.
DictSet(cats, n, p) ==
    IF HasKey(cats, n)
    THEN [k \in DOMAIN cats |-> IF cats[k].name = n THEN Cat(n, p) ELSE cats[k]]
    ELSE Append(cats, Cat(n, p))

\* The dict the app works on: the keys the category manager and the target
\* chooser read ("None" is Python's None, also what get() gives for a key
\* that is not there).
AppConfig(cats, dflt, last, base) ==
    [categories |-> cats, default_category |-> dflt, last_used_path |-> last,
     download_path |-> base]

\* DEFAULT_CONFIG.copy(), lines 15-21 and 48: a shallow copy, its "categories"
\* is the dict object of DEFAULT_CONFIG itself.
DefaultAppConfig(dc) == AppConfig(dc, "None", "None", BasePath)

\* What yaml.dump writes for a config, and what config.yml can hold at start.
Dump(cfg) ==
    [kind |-> "file", hasCats |-> TRUE, categories |-> cfg.categories,
     default_category |-> cfg.default_category,
     last_used_path |-> cfg.last_used_path, download_path |-> cfg.download_path]
DiskDicts ==
    [kind : {"file"}, hasCats : {TRUE},
     categories : {<< >>, <<Cat("Music", "/m")>>},
     default_category : {"None", "Music", "Gone"},
     last_used_path : {"None", "/x"},
     download_path : {BasePath}]
    \cup
    [kind : {"file"}, hasCats : {FALSE}, categories : {<< >>},
     default_category : {"None", "Music"},
     last_used_path : {"None", "/x"},
     download_path : {BasePath}]
Unreadable(d) == d.kind \in {"absent", "corrupt"}

\* save_config, lines 50-56: the file is written ("ok"), cannot be opened
\* ("fail": the file is as before) or the write breaks off ("torn": the file
\* is truncated); every error is logged and swallowed.
SaveOutcomes == {"ok", "fail", "torn"}
DiskAfterSave(d, cfg, o) ==
    CASE o = "ok" -> Dump(cfg)
      [] o = "fail" -> d
      [] OTHER -> CorruptFile
SaveSwallowsNothing == FALSE
SaveSwallows == TRUE

\* save_config(cfg) called by the operation `by`, which then goes on at `next`.
SaveConfig(cfg, by, o, next) ==
    /\ disk' = DiskAfterSave(disk, cfg, o)
    /\ saveLog' = [called |-> TRUE, by |-> by, arg |-> cfg, outcome |-> o]
    /\ IF o = "ok" \/ SaveSwallows
       THEN pc' = next /\ UNCHANGED lastError
       ELSE pc' = "report" /\ lastError' = "config_io"

\* load_config, lines 38-48, on the file d: the parsed dict with the missing
\* keys filled from DEFAULT_CONFIG, or DEFAULT_CONFIG.copy().
LoadedConfig(d, dc) ==
    IF Unreadable(d) THEN DefaultAppConfig(dc)
    ELSE AppConfig(IF d.hasCats THEN d.categories ELSE dc,
                   d.default_category, d.last_used_path, d.download_path)
LoadedAliased(d) == Unreadable(d) \/ ~d.hasCats

\* what the app leaves alone in every step
AppFrame ==
    UNCHANGED <<fileCfg, links, retries, max_parallel, poolSize, idx, title,
                labels, queue, collected, workerVars, resolveVars,
                progressVars, inputVars>>

\* main() is entered, line 306: load_config() creates the file when it is
\* absent (lines 35-37), reads it, and the menu is shown.
MainStarts(o) ==
    /\ IF disk = AbsentFile
       THEN /\ disk' = DiskAfterSave(disk, DefaultAppConfig(defaultCats), o)
            /\ saveLog' = [called |-> TRUE, by |-> "load",
                           arg |-> DefaultAppConfig(defaultCats), outcome |-> o]
       ELSE /\ o = "ok"
            /\ saveLog' = [called |-> FALSE]
            /\ UNCHANGED disk
    /\ IF o = "ok" \/ SaveSwallows
       THEN /\ config' = LoadedConfig(disk', defaultCats)
            /\ catsAliased' = LoadedAliased(disk')
            /\ pc' = "menu"
            /\ UNCHANGED lastError
       ELSE /\ pc' = "report"
            /\ lastError' = "config_io"
            /\ UNCHANGED <<config, catsAliased>>
    /\ UNCHANGED <<defaultCats, current_path, out_path, mgrFrom, touched>>
    /\ AppFrame

InitApp ==
    /\ pc = "boot"
    /\ links = << >>
    /\ BatchRestIdle
    /\ ResolveIdle
    /\ linesRead = 0
    /\ disk \in {AbsentFile, CorruptFile} \cup DiskDicts
    /\ defaultCats = << >>
    /\ catsAliased = FALSE
    /\ current_path = "None"
    /\ out_path = "None"
    /\ saveLog = [called |-> FALSE]
    /\ mgrFrom = "none"
    /\ lastError = "none"
    /\ touched = FALSE

\* __main__, lines 441-443: the first call of main()
Boot(o) ==
    /\ pc = "boot"
    /\ MainStarts(o)

\* ---------------------------------------------------------------- main menu
\* lines 309-320: "1" opens the category manager, "2" goes on to the
\* download, "3" returns from main().
MenuManage ==
    /\ pc = "menu"
    /\ pc' = "manage"
    /\ mgrFrom' = "menu"
    /\ UNCHANGED <<config, disk, defaultCats, catsAliased, current_path,
                   out_path, saveLog, lastError, touched>>
    /\ AppFrame

MenuExit ==
    /\ pc = "menu"
    /\ pc' = "again"
    /\ UNCHANGED <<config, appVars>>
    /\ AppFrame

\* ---------------------------------------------------------- manage_categories
\* The dict cats is config["categories"] itself, and DEFAULT_CONFIG's dict too
\* when the config came from load_config's defaults: a change shows in both.
WithCats(cfg, cats) == [cfg EXCEPT !.categories = cats]
DefaultsAfter(cats) == IF catsAliased THEN cats ELSE defaultCats

ManageFrame ==
    /\ UNCHANGED <<catsAliased, current_path, out_path, mgrFrom, touched>>
    /\ AppFrame

\* "a", lines 101-113, with a name and a chosen folder
ManageAdd(name, new_path, o) ==
    /\ pc = "manage"
    /\ LET cats == DictSet(config.categories, name, new_path)
       IN /\ config' = WithCats(config, cats)
          /\ defaultCats' = DefaultsAfter(cats)
    /\ SaveConfig(config', "add", o, "manage")
    /\ ManageFrame

\* lines 127-128: the default follows the renamed category
DefaultAfterRenameKept(dflt, old_name, new_name) == dflt
DefaultAfterRename(dflt, old_name, new_name) ==
    IF dflt = old_name THEN new_name ELSE dflt

\* "r", lines 114-130, with an index in range and a new name
ManageRename(i, new_name, o) ==
    /\ pc = "manage"
    /\ i \in DOMAIN config.categories
    /\ LET old == config.categories[i]
           cats == DictSet(DictPop(config.categories, old.name), new_name,
                           old.path)
       IN /\ config' = [config EXCEPT
                           !.categories = cats,
                           !.default_category =
                               DefaultAfterRename(@, old.name, new_name)]
          /\ defaultCats' = DefaultsAfter(cats)
    /\ SaveConfig(config', "rename", o, "manage")
    /\ ManageFrame

\* "d", lines 131-148, with an index in range and the answer YES
ManageDelete(i, o) ==
    /\ pc = "manage"
    /\ i \in DOMAIN config.categories
    /\ LET gone == config.categories[i].name
           cats == DictPop(config.categories, gone)
       IN /\ config' = [config EXCEPT
                           !.categories = cats,
                           !.default_category =
                               IF @ = gone THEN "None" ELSE @]
          /\ defaultCats' = DefaultsAfter(cats)
    /\ SaveConfig(config', "delete", o, "manage")
    /\ ManageFrame

\* "s", lines 149-159, with an index in range
ManageSetDefault(i, o) ==
    /\ pc = "manage"
    /\ i \in DOMAIN config.categories
    /\ config' = [config EXCEPT !.default_category = config.categories[i].name]
    /\ SaveConfig(config', "default", o, "manage")
    /\ UNCHANGED defaultCats
    /\ ManageFrame

\* An empty name, no folder chosen, an index that is no number or out of
\* range, an empty new name, a delete not confirmed with YES, an unknown
\* option (lines 103-109, 116-124, 133-137, 147-148, 151-155, 162-163):
\* nothing is changed and the loop asks again.
ManageCancelled ==
    /\ pc = "manage"
    /\ UNCHANGED vars

\* where manage_categories returns to
AfterManage(from, cats) ==
    CASE from = "menu" -> "menu"
      [] from = "target" -> "target"
      [] from = "pick_empty" -> IF cats # << >> THEN "pick_list" ELSE "target"
      [] OTHER -> "pick"

\* "b", lines 160-161
ManageBack ==
    /\ pc = "manage"
    /\ pc' = AfterManage(mgrFrom, config.categories)
    /\ mgrFrom' = "none"
    /\ UNCHANGED <<config, disk, defaultCats, catsAliased, current_path,
                   out_path, saveLog, lastError, touched>>
    /\ AppFrame

\* ----------------------------------------------------- choose_download_target
DefaultValid(cfg) ==
    cfg.default_category # "None" /\ HasKey(cfg.categories, cfg.default_category)

\* lines 268-277, the target offered
InitialTargetLastUsedFirst(cfg) ==
    IF cfg.last_used_path # "None" THEN cfg.last_used_path
    ELSE IF DefaultValid(cfg) THEN Lookup(cfg.categories, cfg.default_category)
    ELSE cfg.download_path
InitialTarget(cfg) ==
    IF DefaultValid(cfg) THEN Lookup(cfg.categories, cfg.default_category)
    ELSE IF cfg.last_used_path # "None" THEN cfg.last_used_path
    ELSE cfg.download_path

\* menu choice "2", lines 319-322 and 268-277
MenuStart ==
    /\ pc = "menu"
    /\ pc' = "target"
    /\ current_path' = InitialTarget(config)
    /\ touched' = FALSE
    /\ UNCHANGED <<config, disk, defaultCats, catsAliased, out_path, saveLog,
                   mgrFrom, lastError>>
    /\ AppFrame

\* config["last_used_path"] = p, lines 284, 290, 296
WithLastUsedForgotten(cfg, p) == cfg
WithLastUsed(cfg, p) == [cfg EXCEPT !.last_used_path = p]

\* the three returns of choose_download_target: remember, save, return
ReturnTarget(p, by, o) ==
    /\ config' = WithLastUsed(config, p)
    /\ SaveConfig(config', by, o, "run")
    /\ out_path' = p
    /\ UNCHANGED <<defaultCats, catsAliased, current_path, mgrFrom>>
    /\ AppFrame

\* Enter, lines 283-286
TargetEnter(o) ==
    /\ pc = "target"
    /\ ReturnTarget(current_path, "enter", o)
    /\ UNCHANGED touched

\* "p", lines 293-298, with a folder chosen
TargetPickPath(newp, o) ==
    /\ pc = "target"
    /\ ReturnTarget(newp, "path", o)
    /\ touched' = TRUE

\* "p" with the popup cancelled, or an unknown choice (lines 301-302): the
\* loop asks again
TargetAskAgain ==
    /\ pc = "target"
    /\ touched' = TRUE
    /\ UNCHANGED <<config, pc, disk, defaultCats, catsAliased, current_path,
                   out_path, saveLog, mgrFrom, lastError>>
    /\ AppFrame

\* "m", lines 299-300
TargetManage ==
    /\ pc = "target"
    /\ pc' = "manage"
    /\ mgrFrom' = "target"
    /\ touched' = TRUE
    /\ UNCHANGED <<config, disk, defaultCats, catsAliased, current_path,
                   out_path, saveLog, lastError>>
    /\ AppFrame

\* "c", lines 287-288: pick_category_for_run is entered
TargetChooseCategory ==
    /\ pc = "target"
    /\ pc' = "pick"
    /\ touched' = TRUE
    /\ UNCHANGED <<config, disk, defaultCats, catsAliased, current_path,
                   out_path, saveLog, mgrFrom, lastError>>
    /\ AppFrame

\* -------------------------------------------------------- pick_category_for_run
PickFrame ==
    /\ UNCHANGED <<config, disk, defaultCats, catsAliased, current_path,
                   out_path, saveLog, lastError, touched>>
    /\ AppFrame

\* lines 193-197: the default is offered and taken (any answer but "n")
PickUseDefault(o) ==
    /\ pc = "pick"
    /\ DefaultValid(config)
    /\ ReturnTarget(Lookup(config.categories, config.default_category),
                    "category", o)
    /\ UNCHANGED touched

\* lines 193-198, 209: the default is declined, or there is none, and there
\* are categories to list
PickShowList ==
    /\ pc = "pick"
    /\ config.categories # << >>
    /\ pc' = "pick_list"
    /\ UNCHANGED mgrFrom
    /\ PickFrame

\* lines 198-201: no categories, answer "y"
PickAddNow ==
    /\ pc = "pick"
    /\ config.categories = << >>
    /\ pc' = "manage"
    /\ mgrFrom' = "pick_empty"
    /\ PickFrame

\* lines 207-208: no categories, any other answer; lines 215-216 and 224-225:
\* nothing or something invalid chosen from the list. None goes back to
\* choose_download_target, whose loop asks again.
PickNothing ==
    /\ \/ pc = "pick" /\ config.categories = << >>
       \/ pc = "pick_list"
    /\ pc' = "target"
    /\ UNCHANGED mgrFrom
    /\ PickFrame

\* lines 217-219: "new"
PickNew ==
    /\ pc = "pick_list"
    /\ pc' = "manage"
    /\ mgrFrom' = "pick_new"
    /\ PickFrame

\* lines 220-223: an index in range
PickIndex(i, o) ==
    /\ pc = "pick_list"
    /\ i \in DOMAIN config.categories
    /\ ReturnTarget(config.categories[i].path, "category", o)
    /\ UNCHANGED touched

\* ------------------------------------------------ the run and the outer loop
\* The rest of main(), lines 325-437, after the target is chosen, returns
\* (finished, no links, BACK); an exception can leave main() at any of its
\* prompts and steps.
InMain == {"menu", "manage", "target", "pick", "pick_list", "run"}

\* main() is left: its locals are gone
MainEnds ==
    /\ current_path' = "None"
    /\ out_path' = "None"
    /\ touched' = FALSE
    /\ saveLog' = [called |-> FALSE]
    /\ mgrFrom' = "none"

RunReturns ==
    /\ pc = "run"
    /\ pc' = "again"
    /\ MainEnds
    /\ UNCHANGED <<config, disk, defaultCats, catsAliased, lastError>>
    /\ AppFrame

RunRaises ==
    /\ pc \in InMain
    /\ pc' = "report"
    /\ lastError' = "run"
    /\ MainEnds
    /\ UNCHANGED <<config, disk, defaultCats, catsAliased>>
    /\ AppFrame

\* lines 444-446: the error is reported
ReportCrash ==
    /\ pc = "report"
    /\ pc' = "cooldown"
    /\ UNCHANGED <<config, appVars>>
    /\ AppFrame

\* lines 447-448: after the pause, `continue` calls main() again
AfterCooldownAsks == "again"
AfterCooldown == "main"

CooldownDone(o) ==
    /\ pc = "cooldown"
    /\ IF AfterCooldown = "main"
       THEN MainStarts(o)
       ELSE /\ o = "ok"
            /\ pc' = AfterCooldown
            /\ UNCHANGED <<config, appVars>>
            /\ AppFrame

\* lines 450-452: "y" calls main() again, anything else ends the program
AgainYes(o) ==
    /\ pc = "again"
    /\ MainStarts(o)

AgainNo ==
    /\ pc = "again"
    /\ pc' = "exit"
    /\ UNCHANGED <<config, appVars>>
    /\ AppFrame

NextApp ==
    \/ \E o \in SaveOutcomes : Boot(o)
    \/ MenuManage
    \/ MenuStart
    \/ MenuExit
    \/ \E n \in CatNames, f \in Folders, o \in SaveOutcomes : ManageAdd(n, f, o)
    \/ \E i \in 1..Cardinality(CatNames), n \in CatNames, o \in SaveOutcomes :
          ManageRename(i, n, o)
    \/ \E i \in 1..Cardinality(CatNames), o \in SaveOutcomes : ManageDelete(i, o)
    \/ \E i \in 1..Cardinality(CatNames), o \in SaveOutcomes :
          ManageSetDefault(i, o)
    \/ ManageCancelled
    \/ ManageBack
    \/ \E o \in SaveOutcomes : TargetEnter(o)
    \/ \E f \in PickedFolders, o \in SaveOutcomes : TargetPickPath(f, o)
    \/ TargetAskAgain
    \/ TargetManage
    \/ TargetChooseCategory
    \/ \E o \in SaveOutcomes : PickUseDefault(o)
    \/ PickShowList
    \/ PickAddNow
    \/ PickNothing
    \/ PickNew
    \/ \E i \in 1..Cardinality(CatNames), o \in SaveOutcomes : PickIndex(i, o)
    \/ RunReturns
    \/ RunRaises
    \/ ReportCrash
    \/ \E o \in SaveOutcomes : CooldownDone(o)
    \/ \E o \in SaveOutcomes : AgainYes(o)
    \/ AgainNo

SpecApp == InitApp /\ [][NextApp]_vars

\* ------------------------------------------- the batch with progress events
\* lines 231-245: the engine calls the hook of the running download with a
\* "downloading" or "finished" event; the hook updates the progress task.
ProgressEvent(i) ==
    /\ wpc[i] = "call"
    /\ emitted[i] < MaxEvents
    /\ emitted' = [emitted EXCEPT ![i] = @ + 1]
    /\ sinkUpdates' =
           IF HookDelivers(taskIds[i])
           THEN [sinkUpdates EXCEPT ![taskIds[i] + 1] = @ + 1]
           ELSE sinkUpdates
    /\ UNCHANGED <<cfgVars, mainVars, workerVars, resolveVars, choices,
                   ydl_opts_base, wOpts, taskIds,
                   inputVars, appVars>>

\* The configuration files of the runs with progress events: numbers that
\* let the batch start.
RunConfigFiles ==
    [readable : {TRUE}, retries : {IntV(1), IntV(2)},
     max_parallel_downloads : {IntV(1), IntV(2)}]

InitRun ==
    /\ fileCfg \in RunConfigFiles
    /\ links \in LinkLists
    /\ choices \in Choices
    /\ BatchStart

\* ------------------------------------------------ the batch, fairly scheduled
\* Runs whose pool can be created: one to MaxItems links, retries 0 or
\* MaxRetries, one worker thread or MaxParallel.
LiveConfigFiles ==
    [readable : {TRUE}, retries : {IntV(0), IntV(MaxRetries)},
     max_parallel_downloads : {IntV(1), IntV(MaxParallel)}]
LiveLinkLists == {[k \in 1..n |-> "http://a"] : n \in 1..MaxItems}

InitLive ==
    /\ fileCfg \in LiveConfigFiles
    /\ links \in LiveLinkLists
    /\ choices = DefaultChoice
    /\ BatchStart

\* The main thread is scheduled: lines 306-410, 420-425.
MainThreadStep ==
    \/ LoadConfig
    \/ ReadRunParams
    \/ CreatePool
    \/ AddTask
    \/ Submit
    \/ Finish
    \/ \E i \in Items : Collect(i)

\* An engine call ends: extract_info (lines 414-418) returns or raises,
\* ydl.download (lines 255-261) returns or raises.
TitleLookupEnds == TitleFound \/ TitleFallback
EngineCallEnds(i) == i \in Items /\ (DownloadReturns(i) \/ DownloadRaises(i))

\* A pool thread is scheduled: it takes work, runs the loop of
\* download_worker, wakes from time.sleep(1).
WorkerStep(i) ==
    /\ i \in Items
    /\ \/ WorkerStart(i)
       \/ WorkerAttempt(i)
       \/ WorkerGiveUp(i)
       \/ BackoffDone(i)

FairBatch ==
    /\ WF_vars(MainThreadStep)
    /\ WF_vars(TitleLookupEnds)
    /\ \A i \in 1..MaxItems : WF_vars(EngineCallEnds(i)) /\ WF_vars(WorkerStep(i))

SpecLive == InitLive /\ [][NextBatch]_vars /\ FairBatch

\* The batch under every choice of options, without progress events.
SpecOptions == InitRun /\ [][NextBatch]_vars

NextRun ==
    \/ NextBatch
    \/ \E i \in Items : ProgressEvent(i)

SpecRun == InitRun /\ [][NextRun]_vars

\* ---------------------------------------------------------- handle_playlist
\* An error message of the engine, as its words.
Messages ==
    {<<"Login", "required">>,
     <<"this", "video", "is", "private">>,
     <<"Private", "video">>,
     <<"HTTP", "Error", "404">>,
     <<"Unsupported", "URL">>}

\* str.lower() on a word of a message.
Lower(w) ==
    CASE w = "Login" -> "login"
      [] w = "Private" -> "private"
      [] w = "HTTP" -> "http"
      [] w = "Error" -> "error"
      [] w = "Unsupported" -> "unsupported"
      [] w = "URL" -> "url"
      [] OTHER -> w

\* line 200: "login" in str(e).lower() or "private" in str(e).lower()
HasAuthMarkerLoose(m) ==
    \E k \in DOMAIN m : Lower(m[k]) \in {"login", "private", "error"}
HasAuthMarker(m) ==
    \E k \in DOMAIN m : Lower(m[k]) \in {"login", "private"}

\* The answers a user can type at the cookies prompt, and str.strip().
RawAnswers == {"", " ", "cookies.txt", " cookies.txt ", "missing.txt"}
Strip(a) ==
    CASE a = " " -> ""
      [] a = " cookies.txt " -> "cookies.txt"
      [] OTHER -> a

\* os.path.exists in the file system of the model.
ExistingPaths == {"cookies.txt"}
PathExists(p) == p \in ExistingPaths

\* line 203: cookies and os.path.exists(cookies)
CookiesUsableIgnoringFile(c) == c # ""
CookiesUsable(c) == c # "" /\ PathExists(c)

\* The child entries of an extracted collection: None, a dict without a url,
\* a video, a nested playlist. The url of a child is what the engine reports:
\* a full url or a bare id.
ChildUrls == {"http://c1", "c2"}
NullEntry == [kind |-> "null", url |-> "none"]
NoUrlEntry == [kind |-> "nourl", url |-> "none"]
Entries ==
    {NullEntry, NoUrlEntry}
    \cup [kind : {"video", "playlist"}, url : ChildUrls]
EntryLists == UNION {[1..n -> Entries] : n \in 0..MaxEntries}

\* What extract_info returns: None, a dict without "entries", a dict with.
InfoNone == [kind |-> "None", hasEntries |-> FALSE, entries |-> << >>]
InfoSingle == [kind |-> "dict", hasEntries |-> FALSE, entries |-> << >>]
Infos ==
    {InfoNone, InfoSingle}
    \cup {[kind |-> "dict", hasEntries |-> TRUE, entries |-> es] : es \in EntryLists}

\* What a call of try_extract does: it raises with a message or returns.
Raised(m) == [kind |-> "raised", msg |-> m, info |-> InfoNone]
Returned(info) == [kind |-> "returned", msg |-> << >>, info |-> info]
ExtractOutcomes == {Raised(m) : m \in Messages} \cup {Returned(i) : i \in Infos}

\* What handle_playlist does: it returns a list of urls or an error leaves it.
ListOf(us) == [kind |-> "list", urls |-> us, error |-> "none"]
Raises(e) == [kind |-> "raised", urls |-> << >>, error |-> e]

\* line 218, "if e": None is falsy, a dict with keys is truthy.
EntryTruthyAlways(e) == TRUE
EntryTruthy(e) == e.kind # "null"

\* line 218: [e["url"] for e in info["entries"] if e]
RECURSIVE UrlsOf(_)
UrlsOf(es) ==
    IF es = << >> THEN << >>
    ELSE IF EntryTruthy(Head(es))
         THEN <<Head(es).url>> \o UrlsOf(Tail(es))
         ELSE UrlsOf(Tail(es))

\* lines 216-220: handle_playlist from the extracted info on
FromInfo(url, info) ==
    IF info.kind = "None" THEN Raises("TypeError")
    ELSE IF info.hasEntries /\ info.entries # << >>
         THEN IF \E k \in DOMAIN info.entries : info.entries[k].kind = "nourl"
              THEN Raises("KeyError")
              ELSE ListOf(UrlsOf(info.entries))
         ELSE ListOf(<<url>>)

\* lines 206-208: the list returned when the retry with cookies raises
OnRetryFailureSkip(url) == ListOf(<< >>)
OnRetryFailure(url) == ListOf(<<url>>)

\* try_extract(cookies), lines 190-195: the call made to the engine
ExtractCall(url, cookies) == [url |-> url, cookiefile |-> cookies]

InitResolve ==
    /\ hpc = "start"
    /\ hUrl \in Urls
    /\ hCalls = << >>
    /\ hPrompts = 0
    /\ hFirst = [kind |-> "none"]
    /\ hCookies = "none"
    /\ hRetry = [kind |-> "none"]
    /\ hResult = [kind |-> "none"]
    /\ BatchIdle
    /\ AppIdle

\* lines 197-214 up to the prompt: the first try_extract returns or raises
FirstExtract(o) ==
    /\ hpc = "start"
    /\ hCalls' = Append(hCalls, ExtractCall(hUrl, "none"))
    /\ hFirst' = o
    /\ IF o.kind = "returned"
       THEN /\ hResult' = FromInfo(hUrl, o.info)
            /\ hpc' = "done"
       ELSE IF HasAuthMarker(o.msg)
            THEN /\ hpc' = "prompt"
                 /\ UNCHANGED hResult
            ELSE /\ hResult' = ListOf(<<hUrl>>)
                 /\ hpc' = "done"
    /\ UNCHANGED <<hUrl, hPrompts, hCookies, hRetry, cfgVars, mainVars, workerVars, progressVars,
                   inputVars, appVars>>

\* lines 201-203 and 209-211: the prompt is answered
AnswerPrompt(a) ==
    /\ hpc = "prompt"
    /\ hPrompts' = hPrompts + 1
    /\ hCookies' = Strip(a)
    /\ IF CookiesUsable(Strip(a))
       THEN /\ hpc' = "retry"
            /\ UNCHANGED hResult
       ELSE /\ hResult' = ListOf(<< >>)
            /\ hpc' = "done"
    /\ UNCHANGED <<hUrl, hCalls, hFirst, hRetry, cfgVars, mainVars, workerVars, progressVars,
                   inputVars, appVars>>

\* lines 204-208 and 216-220: try_extract(cookies) returns or raises
RetryExtract(o) ==
    /\ hpc = "retry"
    /\ hCalls' = Append(hCalls, ExtractCall(hUrl, hCookies))
    /\ hRetry' = o
    /\ hResult' = IF o.kind = "returned"
                  THEN FromInfo(hUrl, o.info)
                  ELSE OnRetryFailure(hUrl)
    /\ hpc' = "done"
    /\ UNCHANGED <<hUrl, hPrompts, hFirst, hCookies, cfgVars, mainVars, workerVars, progressVars,
                   inputVars, appVars>>

NextResolve ==
    \/ \E o \in ExtractOutcomes : FirstExtract(o)
    \/ \E a \in RawAnswers : AnswerPrompt(a)
    \/ \E o \in ExtractOutcomes : RetryExtract(o)

SpecResolve == InitResolve /\ [][NextResolve]_vars

\* ---------------------------------------------------------------- link input
\* The lines a user pastes or a link file holds.
InputLines == {"", "http://a", " 'http://b' ", "ftp://x", "links.txt"}

\* line 334: input("> ").strip().strip('"').strip("'")
CleanLine(raw) == IF raw = " 'http://b' " THEN "http://b" ELSE raw

\* lines 340 and 368: l.strip() on a line of a link file
StripLine(raw) == IF raw = " 'http://b' " THEN "'http://b'" ELSE raw

\* str.startswith("http")
StartsWithHttp(u) == u \in {"http://a", "http://b", "http://c1"}

\* line 337: line.lower().endswith(".txt") and os.path.exists(line)
IsLinkFile(l) == l = "links.txt"

\* handle_playlist(l) is entered for the line l; main waits for its result.
\* (The lookup of lines 342-347 before it only prints the title and catches
\* every error.)
CallHandlePlaylist(l) ==
    /\ hpc' = "start"
    /\ hUrl' = l
    /\ hCalls' = << >>
    /\ hPrompts' = 0
    /\ hFirst' = [kind |-> "none"]
    /\ hCookies' = "none"
    /\ hRetry' = [kind |-> "none"]
    /\ hResult' = [kind |-> "none"]

\* Link input starts at line 329 with option 1 (paste) or option 2 (file).
InitLinks ==
    /\ pc \in {"paste", "file2"}
    /\ links = << >>
    /\ BatchRestIdle
    /\ ResolveIdle
    /\ AppIdle

\* lines 333-358: one pasted line
PasteLine(raw) ==
    /\ pc = "paste"
    /\ raw = "" \/ linesRead < MaxLines
    /\ linesRead' = linesRead + 1
    /\ LET line == CleanLine(raw)
       IN IF line = ""
          THEN pc' = "links_done" /\ UNCHANGED resolveVars
          ELSE IF IsLinkFile(line)
          THEN pc' = "file1" /\ UNCHANGED resolveVars
          ELSE IF StartsWithHttp(line)
          THEN pc' = "resolve_paste" /\ CallHandlePlaylist(line)
          ELSE pc' = "paste" /\ UNCHANGED resolveVars
    /\ UNCHANGED <<cfgVars, links, retries, max_parallel, poolSize, idx, title,
                   labels, queue, collected, workerVars, progressVars, appVars>>

\* lines 339-348 and 367-376: one line of the link file
FileLine(raw) ==
    /\ pc \in {"file1", "file2"}
    /\ linesRead < MaxLines
    /\ linesRead' = linesRead + 1
    /\ LET l == StripLine(raw)
       IN IF StartsWithHttp(l)
          THEN /\ pc' = IF pc = "file1" THEN "resolve_file1" ELSE "resolve_file2"
               /\ CallHandlePlaylist(l)
          ELSE UNCHANGED <<pc, resolveVars>>
    /\ UNCHANGED <<cfgVars, links, retries, max_parallel, poolSize, idx, title,
                   labels, queue, collected, workerVars, progressVars, appVars>>

\* the link file is exhausted: back to the paste prompt, or on to line 380
EndOfFile ==
    /\ pc \in {"file1", "file2"}
    /\ pc' = IF pc = "file1" THEN "paste" ELSE "links_done"
    /\ UNCHANGED <<cfgVars, links, retries, max_parallel, poolSize, idx, title,
                   labels, queue, collected, workerVars, resolveVars,
                   progressVars, inputVars, appVars>>

\* lines 348, 356, 376: links.extend(handle_playlist(l)); an error that
\* leaves handle_playlist leaves main() too.
ExtendLinks ==
    /\ pc \in {"resolve_paste", "resolve_file1", "resolve_file2"}
    /\ hpc = "done"
    /\ IF hResult.kind = "list"
       THEN /\ links' = links \o hResult.urls
            /\ pc' = CASE pc = "resolve_paste" -> "paste"
                        [] pc = "resolve_file1" -> "file1"
                        [] OTHER -> "file2"
       ELSE /\ pc' = "crashed"
            /\ UNCHANGED links
    /\ hpc' = "idle"
    /\ hUrl' = "none"
    /\ hCalls' = << >>
    /\ hPrompts' = 0
    /\ hFirst' = [kind |-> "none"]
    /\ hCookies' = "none"
    /\ hRetry' = [kind |-> "none"]
    /\ hResult' = [kind |-> "none"]
    /\ UNCHANGED <<cfgVars, retries, max_parallel, poolSize, idx, title,
                   labels, queue, collected, workerVars, progressVars,
                   inputVars, appVars>>

\* lines 380-385: without links main() returns, else the format is asked
CheckLinks ==
    /\ pc = "links_done"
    /\ pc' = IF links = << >> THEN "returned" ELSE "format"
    /\ UNCHANGED <<cfgVars, links, retries, max_parallel, poolSize, idx, title,
                   labels, queue, collected, workerVars, resolveVars,
                   progressVars, inputVars, appVars>>

NextLinks ==
    \/ \E raw \in InputLines : PasteLine(raw)
    \/ \E raw \in InputLines : FileLine(raw)
    \/ EndOfFile
    \/ ExtendLinks
    \/ CheckLinks
    \/ NextResolve

SpecLinks == InitLinks /\ [][NextLinks]_vars

\* =================================================================== claims
Max(a, b) == IF a >= b THEN a ELSE b
InQueue(i) == \E k \in DOMAIN queue : queue[k] = i
Started(i) == wpc[i] \in {"loop", "call", "sleep", "done"}

\* C1: with maxParallel = k >= 1, in every reachable state at most k
\* invocations of the worker have started and not returned, and a submitted
\* item that has not started is waiting in the queue.
C1_AtMostKActive ==
    poolSize >= 1 =>
        /\ poolSize = max_parallel.val
        /\ Cardinality(Active) <= poolSize
        /\ \A i \in Items : wpc[i] = "queued" <=> InQueue(i)
C1_Witness ==
    /\ poolSize >= 1
    /\ Len(links) > poolSize
    /\ Cardinality(Active) = poolSize
    /\ queue # << >>

\* C2: when the batch is reported complete every dispatched item has produced
\* exactly one outcome, no invocation is running or queued, and no item ever
\* has two outcomes.
C2_CompleteMeansAllOutcomes ==
    /\ \A i \in Items : outcomes[i] <= 1
    /\ pc = "finished" =>
           /\ queue = << >>
           /\ Active = {}
           /\ \A i \in Items : /\ outcomes[i] = 1
                               /\ wpc[i] = "done"
                               /\ result[i] \in {"True", "False"}
C2_Witness ==
    /\ pc = "finished"
    /\ \E i, j \in Items : result[i] = "True" /\ result[j] = "False"

\* C3: with retryLimit = r (a number r >= 0, given as an integer or as its
\* digits) and an engine whose download always fails, the download is
\* invoked exactly r times and the worker returns False after r attempts.
C3_AlwaysFailingUsesAllRetries ==
    \A i \in Items :
        (/\ wpc[i] = "done"
         /\ okAt[i] = 0
         /\ retries.kind \in {"int", "numstr"}
         /\ retries.val >= 0)
        => /\ calls[i] = retries.val
           /\ attempt[i] = retries.val
           /\ result[i] = "False"
C3_Witness ==
    \E i \in Items :
        /\ wpc[i] = "done"
        /\ okAt[i] = 0
        /\ retries = IntV(2)
        /\ calls[i] = 2
        /\ result[i] = "False"

\* C4: when the download fails on attempts 1..j-1 and succeeds on attempt j
\* (1 <= j <= r), the worker returns True right after attempt j: the download
\* was invoked exactly j times and is never invoked again for the item.
C4_SuccessStopsRetrying ==
    \A i \in Items :
        okAt[i] # 0 =>
            /\ wpc[i] = "done"
            /\ result[i] = "True"
            /\ calls[i] = okAt[i]
            /\ backoffs[i] = okAt[i] - 1
            /\ okAt[i] >= 1
            /\ okAt[i] <= wRetries[i]
C4_Witness ==
    \E i \in Items :
        /\ okAt[i] = 2
        /\ calls[i] = 2
        /\ wRetries[i] = 3
        /\ result[i] = "True"
        /\ pc = "finished"

\* C5: whatever config.yml holds for max_parallel_downloads and retries, the
\* value the pool is sized with and the retry limit of every worker are both
\* >= 1 when the batch starts, so every dispatched item gets an attempt.
C5_RunLimitsAtLeastOne ==
    /\ pc = "pool" => max_parallel.kind = "int" /\ max_parallel.val >= 1
    /\ \A i \in Items : Started(i) => wRetries[i] >= 1
    /\ \A i \in Items : wpc[i] = "done" => calls[i] >= 1

\* C6: once an item has failed for good, every other dispatched item still is
\* in the queue or runs, and ends only at its first success or after its own
\* retry limit; the batch is not aborted.
C6_FailureDoesNotCancelOthers ==
    \A j \in Items :
        result[j] = "False" =>
            /\ pc \in {"title", "add_task", "submit", "collect", "finished"}
            /\ \A i \in Items \ {j} :
                   /\ wpc[i] = "queued" => InQueue(i)
                   /\ wpc[i] = "done" =>
                          \/ okAt[i] # 0 /\ calls[i] = okAt[i]
                          \/ okAt[i] = 0 /\ calls[i] = Max(wRetries[i], 0)
                   /\ pc = "finished" => wpc[i] = "done"
C6_Witness ==
    /\ pc = "finished"
    /\ poolSize = 1
    /\ \E j, i \in Items :
           /\ j < i
           /\ result[j] = "False"
           /\ calls[j] >= 1
           /\ result[i] = "True"
           /\ calls[i] >= 2

\* C12: every url in the item list is non-empty and begins with "http",
\* whether it comes from a pasted line, a link file or a collection.
C12_LinksStartWithHttp ==
    \A k \in DOMAIN links : links[k] # "" /\ StartsWithHttp(links[k])

\* C13: download_worker never raises: for every engine failure and every
\* retries value (a number, zero, negative, not a number) the invocation ends
\* with True or False, exactly once, and no error reaches main().
C13_WorkerNeverRaises ==
    /\ \A i \in Items :
           wpc[i] = "done" => result[i] \in {"True", "False"} /\ outcomes[i] = 1
    /\ (\E i \in Items : Started(i)) => pc # "crashed"
C13_Witness ==
    \E i \in Items :
        /\ retries = Text
        /\ wpc[i] = "done"
        /\ result[i] = "False"
        /\ calls[i] = WorkerFallbackRetries
        /\ backoffs[i] = WorkerFallbackRetries
        /\ i \in collected

\* C14: every progress event the engine sends for an item is delivered as an
\* update to that item's own progress task, whatever id the sink gave it (the
\* first item of a batch has id 0).
C14_EveryEventDelivered ==
    \A i \in Items :
        Started(i) => sinkUpdates[taskIds[i] + 1] = emitted[i]

\* C15: no two invocations that are active at the same time write the same
\* output path, also when the link list holds the same url twice.
C15_DisjointOutputPaths ==
    \A i, j \in Items :
        (i # j /\ wpc[i] = "call" /\ wpc[j] = "call")
            => OutputPath(links[i]) # OutputPath(links[j])

\* The fields of the options the run sets.
RunFields(o) == <<o.format, o.postprocessors, o.continuedl, o.writethumbnail>>

\* C19: the run options are built once per batch, every invocation gets the
\* same format, post-processors, resume and thumbnail values, and the shared
\* options are the same after the last outcome as before the first dispatch:
\* once built, no step changes them.
C19_OptionsSharedUnchanged ==
    /\ [](\A i \in Items :
             wOpts[i] # NoOpts =>
                 /\ RunFields(wOpts[i]) = RunFields(ydl_opts_base)
                 /\ RunFields(wOpts[i]) = RunFields(BuildOpts(choices)))
    /\ [][pc \notin {"load", "params"} => ydl_opts_base' = ydl_opts_base]_vars
C19_Witness ==
    /\ pc = "finished"
    /\ Len(links) >= 2
    /\ choices = [format |-> "conv-mp3", thumb |-> "y"]
    /\ ydl_opts_base.postprocessors # << >>
    /\ \A i \in Items : wOpts[i] # NoOpts /\ calls[i] = 2

\* The messages that carry an auth marker ("login" or "private", in any case).
AuthMessages ==
    {<<"Login", "required">>,
     <<"this", "video", "is", "private">>,
     <<"Private", "video">>}
FirstFailedWithAuth == hFirst.kind = "raised" /\ hFirst.msg \in AuthMessages
\* The info handle_playlist resolves from: the one a try_extract returned.
UsedInfo ==
    IF hFirst.kind = "returned" THEN hFirst.info
    ELSE IF hRetry.kind = "returned" THEN hRetry.info
    ELSE InfoNone
AllChildrenHaveUrl(es) ==
    \A k \in DOMAIN es : es[k].kind \in {"video", "playlist"}

\* C7: after an auth-marker failure, a credential path that exists gives
\* exactly one retry with that credential attached, and a retry that succeeds
\* is resolved from its result; no credential, or a path that does not exist,
\* gives no retry and the empty list. Extraction is never called more than
\* twice for one resolve.
C7_CredentialRetry ==
    /\ Len(hCalls) <= 2
    /\ (hpc = "done" /\ FirstFailedWithAuth) =>
           /\ hPrompts = 1
           /\ hCalls[1] = [url |-> hUrl, cookiefile |-> "none"]
           /\ IF hCookies \in ExistingPaths
              THEN /\ Len(hCalls) = 2
                   /\ hCalls[2] = [url |-> hUrl, cookiefile |-> hCookies]
                   /\ (hRetry.kind = "returned" /\ hRetry.info = InfoSingle)
                          => hResult = ListOf(<<hUrl>>)
                   /\ (/\ hRetry.kind = "returned"
                       /\ hRetry.info.hasEntries
                       /\ hRetry.info.entries # << >>
                       /\ AllChildrenHaveUrl(hRetry.info.entries))
                          => hResult =
                                 ListOf([k \in DOMAIN hRetry.info.entries |->
                                             hRetry.info.entries[k].url])
              ELSE /\ Len(hCalls) = 1
                   /\ hResult = ListOf(<< >>)
C7_Witness ==
    /\ hpc = "done"
    /\ FirstFailedWithAuth
    /\ hCookies = "cookies.txt"
    /\ Len(hCalls) = 2
    /\ hRetry.kind = "returned"
    /\ hRetry.info.hasEntries
    /\ Len(hRetry.info.entries) = 2
    /\ hResult.kind = "list"
    /\ Len(hResult.urls) = 2

\* C8: after an auth-marker failure and a failed retry with a valid
\* credential, resolve returns the empty list.
C8_RetryFailureSkips ==
    (hpc = "done" /\ FirstFailedWithAuth /\ hRetry.kind = "raised")
        => hResult = ListOf(<< >>)

\* C8 as amended: after an auth-marker failure and a failed retry with a
\* valid credential, resolve returns the single original url (the url is
\* passed through, not skipped), after exactly two extraction calls.
C8_RetryFailurePassesThrough ==
    (hpc = "done" /\ FirstFailedWithAuth /\ hRetry.kind = "raised") =>
        /\ hCookies \in ExistingPaths
        /\ Len(hCalls) = 2
        /\ hResult = ListOf(<<hUrl>>)
C8_Witness ==
    /\ hpc = "done"
    /\ FirstFailedWithAuth
    /\ hCookies = "cookies.txt"
    /\ hRetry.kind = "raised"
    /\ hResult = ListOf(<<hUrl>>)

\* C11: resolve never raises: whatever the engine does, handle_playlist
\* returns a list of urls.
C11_ResolveNeverRaises ==
    hpc = "done" => hResult.kind = "list"

\* C9: after a failure without auth marker there is no prompt and no second
\* extraction, and the result is the single original url.
C9_NonAuthPassThrough ==
    (hFirst.kind = "raised" /\ hFirst.msg \notin AuthMessages) =>
        /\ hpc = "done"
        /\ hPrompts = 0
        /\ Len(hCalls) = 1
        /\ hRetry.kind = "none"
        /\ hResult = ListOf(<<hUrl>>)
C9_Witness ==
    /\ hpc = "done"
    /\ hFirst.kind = "raised"
    /\ hFirst.msg = <<"HTTP", "Error", "404">>
    /\ hResult = ListOf(<<hUrl>>)

\* The case of C10: resolve is done from a collection with n >= 1 child
\* entries, each of them null or carrying a url.
ResolvedCollection ==
    /\ hpc = "done"
    /\ UsedInfo.kind = "dict"
    /\ UsedInfo.hasEntries
    /\ Len(UsedInfo.entries) >= 1
    /\ \A k \in DOMAIN UsedInfo.entries : UsedInfo.entries[k].kind # "nourl"
NonNull(es) == {k \in DOMAIN es : es[k].kind # "null"}

\* C10 as stated: a collection with n >= 1 child entries resolves to exactly
\* n items, also when some child entry is null.
C10_OneItemPerChild ==
    ResolvedCollection =>
        /\ hResult.kind = "list"
        /\ Len(hResult.urls) = Len(UsedInfo.entries)

\* C10 as amended: a collection with n >= 1 child entries resolves to the urls
\* of its non-null children, in child order (n items when no child is null,
\* fewer otherwise); no extraction call is made on a child, also when the
\* child is itself a collection.
C10_OneItemPerNonNullChild ==
    ResolvedCollection =>
        LET es == UsedInfo.entries
        IN /\ hResult.kind = "list"
           /\ Len(hResult.urls) = Cardinality(NonNull(es))
           /\ \A k \in NonNull(es) :
                  hResult.urls[Cardinality({m \in NonNull(es) : m <= k})]
                      = es[k].url
           /\ \A c \in DOMAIN hCalls : hCalls[c].url = hUrl
C10_Witness ==
    /\ ResolvedCollection
    /\ \E k \in DOMAIN UsedInfo.entries : UsedInfo.entries[k].kind = "null"
    /\ \E k \in DOMAIN UsedInfo.entries : UsedInfo.entries[k].kind = "playlist"
    /\ hResult.kind = "list"
    /\ Len(hResult.urls) = 1

\* C16: the target choose_download_target offers first is the path of the
\* default category when one is set and is a key of the categories, else the
\* last-used path when set, else the base download path; Enter with no other
\* option taken returns exactly that path.
PrecedenceTarget(cfg) ==
    IF cfg.default_category # "None"
       /\ \E k \in DOMAIN cfg.categories :
             cfg.categories[k].name = cfg.default_category
    THEN Lookup(cfg.categories, cfg.default_category)
    ELSE IF cfg.last_used_path # "None" THEN cfg.last_used_path
    ELSE cfg.download_path

C16_EnterReturnsPrecedenceTarget ==
    /\ (pc = "target" /\ ~touched) => current_path = PrecedenceTarget(config)
    /\ (pc = "run" /\ ~touched) =>
          /\ out_path = current_path
          /\ out_path = PrecedenceTarget(config)

C16_Witness ==
    /\ pc = "run"
    /\ ~touched
    /\ config.default_category = "Music"
    /\ out_path = "/m"
    /\ disk.kind = "file"
    /\ disk.last_used_path = "/m"

\* C17: whenever choose_download_target has returned a path p (Enter, a picked
\* category, a browsed folder), config["last_used_path"] is p and save_config
\* was called with that config before the return; when that save succeeded the
\* file holds last_used_path = p before the rest of the run starts.
C17_LastUsedWrittenThrough ==
    pc = "run" =>
        /\ config.last_used_path = out_path
        /\ saveLog.called
        /\ saveLog.by \in {"enter", "category", "path"}
        /\ saveLog.arg.last_used_path = out_path
        /\ saveLog.outcome = "ok" =>
              disk.kind = "file" /\ disk.last_used_path = out_path

C17_Witness ==
    /\ pc = "run"
    /\ saveLog.called
    /\ saveLog.by = "path"
    /\ saveLog.outcome = "ok"
    /\ out_path = "/p"
    /\ disk.last_used_path = "/p"

\* C18: no error of load_config or save_config reaches the caller: a load of
\* a file that is absent (also when creating it fails), unreadable or
\* unparsable gives the default configuration, and a save that cannot write
\* leaves the config in memory as it was passed and the calling operation goes
\* on.
NextAfterSave(by) ==
    CASE by = "load" -> "menu"
      [] by \in {"add", "rename", "delete", "default"} -> "manage"
      [] OTHER -> "run"

C18_ConfigIoNeverEscapes ==
    /\ [](lastError # "config_io")
    /\ [][(pc \in {"boot", "cooldown", "again"} /\ pc' = "menu"
           /\ Unreadable(disk'))
          => config' = DefaultAppConfig(defaultCats')]_vars
    /\ [][(saveLog' # saveLog /\ saveLog'.called /\ saveLog'.outcome # "ok")
          => /\ config' = saveLog'.arg
             /\ pc' = NextAfterSave(saveLog'.by)]_vars

C18_Witness ==
    /\ pc = "manage"
    /\ saveLog.called
    /\ saveLog.by = "add"
    /\ saveLog.outcome = "fail"
    /\ disk = AbsentFile
    /\ config.categories # << >>

\* C20: an error that leaves main() is caught by the outer loop, reported,
\* waited out, and main() starts again at its menu: the program ends only from
\* the "start another download?" prompt, and that prompt comes only after
\* main() returned, never after an error.
C20_ErrorRestartsMenu ==
    /\ [][lastError' # lastError => pc' = "report"]_vars
    /\ [][pc = "report" => pc' = "cooldown"]_vars
    /\ [][pc = "cooldown" => pc' = "menu"]_vars
    /\ [][pc' = "exit" => pc = "again"]_vars
    /\ [][pc' = "again" => (pc \in {"menu", "run"} /\ lastError' = lastError)]_vars

C20_Witness ==
    /\ pc = "menu"
    /\ lastError = "run"
    /\ config.categories # << >>

\* C21: a backoff wait happens only between two attempts on the same item:
\* an invocation that has returned after n attempts has waited n - 1 times,
\* and no wait follows the last failed attempt (False is returned at once).
C21_BackoffOnlyBetweenAttempts ==
    \A i \in Items :
        /\ wpc[i] = "sleep" => RangeHasNext(attempt[i] + 1, wRetries[i])
        /\ (wpc[i] = "done" /\ calls[i] >= 1) => backoffs[i] = calls[i] - 1

\* C22: every item that was handed to the pool, and so every item with a
\* download attempt, already has its progress task, labelled with the title
\* found for its url or with the raw url; and when the dispatch loop is over
\* every item was handed to the pool, whichever way its title lookup went.
C22_LabelledBeforeFirstAttempt ==
    /\ \A i \in Items :
          (wpc[i] # "none" \/ calls[i] >= 1) =>
              /\ i \in DOMAIN labels
              /\ labels[i].kind \in {"title", "url"}
              /\ labels[i].of = links[i]
              /\ taskIds[i] = i - 1
    /\ pc \in {"collect", "finished"} =>
          /\ Len(labels) = Len(links)
          /\ \A i \in Items : wpc[i] # "none"

C22_Witness ==
    /\ pc = "finished"
    /\ Len(links) = 2
    /\ labels[1].kind = "url"
    /\ labels[2].kind = "title"
    /\ calls[1] >= 1
    /\ calls[2] >= 1

\* C23: when every engine call ends and the threads are scheduled fairly,
\* every item handed to the pool eventually has its outcome and the batch
\* eventually completes with one outcome per item, for every link list, pool
\* size >= 1 and retry limit.
C23_BatchEventuallyCompletes ==
    /\ (pc = "load") ~>
          (pc = "finished"
           /\ \A i \in Items : outcomes[i] = 1 /\ wpc[i] = "done")
    /\ \A i \in 1..MaxItems :
          (i \in Items /\ wpc[i] = "queued") ~> (i \in Items /\ outcomes[i] = 1)

C23_Witness ==
    /\ pc = "finished"
    /\ poolSize = 1
    /\ Len(links) >= 2
    /\ result[1] = "False"
    /\ result[2] = "True"

\* C24: a category-manager operation on a config whose default_category is
\* None or a key of the categories leaves it None or a key of the categories
\* (so this holds after any sequence of operations from such a config):
\* a rename that takes the default's name away moves the default to the new
\* name, a delete that removes the default's category clears the default.
NamesOf(cats) == {cats[k].name : k \in DOMAIN cats}
DefaultOk(cfg) ==
    cfg.default_category = "None"
    \/ cfg.default_category \in NamesOf(cfg.categories)
ManagerDid(op) == pc = "manage" /\ pc' = "manage" /\ saveLog'.called /\ saveLog'.by = op

C24_DefaultStaysValid ==
    [][(pc = "manage" /\ DefaultOk(config)) =>
          /\ DefaultOk(config')
          /\ (ManagerDid("rename") /\ config.default_category # "None"
              /\ config.default_category \notin NamesOf(config'.categories))
             => /\ config'.default_category \in NamesOf(config'.categories)
                /\ config'.default_category # config.default_category
          /\ (ManagerDid("delete")
              /\ config.default_category \notin NamesOf(config'.categories))
             => config'.default_category = "None"]_vars

C24_Witness ==
    /\ pc = "manage"
    /\ saveLog.called
    /\ saveLog.by = "rename"
    /\ config.categories = <<Cat("Video", "/m")>>
    /\ config.default_category = "Video"

\* C25: a rename of an existing category to a non-empty new name, also one
\* that another category already has, changes only that category's name: the
\* renamed category keeps its path under the new name, every other category is
\* still there with its own path, and there are as many categories as before.
C25_RenameChangesOnlyName ==
    [][ManagerDid("rename") =>
          \E i \in DOMAIN config.categories :
              /\ \E k \in DOMAIN config'.categories :
                    /\ config'.categories[k].path = config.categories[i].path
                    /\ config'.categories[k].name
                           \notin NamesOf(SubSeq(config.categories, 1, i - 1)
                                          \o SubSeq(config.categories, i + 1,
                                                    Len(config.categories)))
              /\ \A j \in DOMAIN config.categories \ {i} :
                    \E k \in DOMAIN config'.categories :
                        config'.categories[k] = config.categories[j]
              /\ Len(config'.categories) = Len(config.categories)]_vars

\* C26: a target confirmed with Enter is the precedence target (default
\* category path, else last-used path, else base path) of the config as it is
\* when Enter is given, also after the categories or the default category
\* were edited through "m" during the same call.
C26_EnterReturnsCurrentPrecedenceTarget ==
    [][(pc = "target" /\ pc' = "run" /\ saveLog'.called
        /\ saveLog'.by = "enter")
       => out_path' = PrecedenceTarget(config)]_vars

\* C27: DEFAULT_CONFIG is never modified: whatever loads and category-manager
\* operations came before, its categories stay empty, and a load that falls
\* back to the defaults gives a config with no categories and no default
\* category.
C27_DefaultsNeverModified ==
    /\ [](defaultCats = << >>)
    /\ [][(pc \in {"boot", "cooldown", "again"} /\ pc' = "menu"
           /\ Unreadable(disk'))
          => /\ config'.categories = << >>
             /\ config'.default_category = "None"]_vars

====
